---- MODULE Spec2Model ----
(***************************************************************************)
(* Model of src/main.py: the POST /optimize handler, the brace-depth JSON  *)
(* extractor and the two normalizers.                                      *)
(*                                                                         *)
(* Python strings are TLA+ strings; the character at 1-based position i is *)
(* SubSeq(s, i, i).  Python's 0-based index p is the model's p + 1, and    *)
(* find()'s -1 is the model's 0.                                           *)
(*                                                                         *)
(* A decoded JSON value (Python None/bool/int/float/str/list/dict) is a    *)
(* record with a tag t and one payload field per kind, so that any two     *)
(* values can be compared:  b (bool, or the sign of a float), n (int, or   *)
(* the digits of a float), e (the decimal exponent of a float), s (str, or *)
(* "inf"/"nan" for a float that is not finite), l (list items, or the      *)
(* values of a dict), k (the keys of a dict, in insertion order, parallel  *)
(* to l).  Equality of records is identity of type and value: 1 and 1.0,   *)
(* or 0.0 and -0.0, are different records.                                 *)
(*                                                                         *)
(* What the model has no answer for: the characters U+0000, U+007E and     *)
(* those above U+00FF (not written in a TLA+ string, see Characters), an   *)
(* integer or the digits of a float longer than nine digits (TLC integers  *)
(* are 32-bit), and a float below the normal range of a double.  The       *)
(* operators below are undefined on them.                                  *)
(***************************************************************************)
EXTENDS Integers, Sequences, FiniteSets, TLC

VARIABLES pc, data, language, code, raw, parsed, exc, status, body, trace, args, ret

vars == <<pc, data, language, code, raw, parsed, exc, status, body, trace, args, ret>>

(***************************************************************************)
(* Bounds of the model.                                                    *)
(***************************************************************************)
MaxLen == 6
MaxWrapped == 3
MaxSugg == 2
MaxStr == 2

(***************************************************************************)
(* JSON values.                                                            *)
(***************************************************************************)
JNull == [t |-> "null", b |-> FALSE, n |-> 0, e |-> 0, s |-> "", k |-> <<>>, l |-> <<>>]
JBool(x) == [t |-> "bool", b |-> x, n |-> 0, e |-> 0, s |-> "", k |-> <<>>, l |-> <<>>]
JNum(x) == [t |-> "num", b |-> FALSE, n |-> x, e |-> 0, s |-> "", k |-> <<>>, l |-> <<>>]
JStr(x) == [t |-> "str", b |-> FALSE, n |-> 0, e |-> 0, s |-> x, k |-> <<>>, l |-> <<>>]
JList(xs) == [t |-> "list", b |-> FALSE, n |-> 0, e |-> 0, s |-> "", k |-> <<>>, l |-> xs]
JObj(ks, vs) == [t |-> "obj", b |-> FALSE, n |-> 0, e |-> 0, s |-> "", k |-> ks, l |-> vs]

\* The float (-1)^neg * m * 10^e, with m > 0 not a multiple of ten, or m = e = 0.
JFloat(neg, m, e) ==
  [t |-> "float", b |-> neg, n |-> m, e |-> e, s |-> "", k |-> <<>>, l |-> <<>>]

\* float("inf"), float("-inf")
JInf(neg) == [t |-> "float", b |-> neg, n |-> 0, e |-> 0, s |-> "inf", k |-> <<>>, l |-> <<>>]

\* float("nan")
JNaN == [t |-> "float", b |-> FALSE, n |-> 0, e |-> 0, s |-> "nan", k |-> <<>>, l |-> <<>>]

\* type(v).__name__
TypeName(v) ==
  CASE v.t = "null" -> "NoneType" [] v.t = "bool" -> "bool" [] v.t = "num" -> "int"
    [] v.t = "float" -> "float" [] v.t = "str" -> "str" [] v.t = "list" -> "list"
    [] v.t = "obj" -> "dict"

Min(a, b) == IF a <= b THEN a ELSE b

\* The character of s at 1-based position i; "" past either end.
At(s, i) == IF i >= 1 /\ i <= Len(s) THEN SubSeq(s, i, i) ELSE ""

\* s[i-1:] in Python terms: the suffix of s starting at 1-based position i.
From(s, i) == IF i > Len(s) THEN "" ELSE SubSeq(s, i, Len(s))

\* s[a-1:b] in Python terms: the characters of s at positions a..b.
Slice(s, a, b) == IF a > b THEN "" ELSE SubSeq(s, a, b)

\* The first position at or after i of a character of chars, 0 when there is none.
FirstIn(s, chars, i) ==
  IF \E j \in i..Len(s) : At(s, j) \in chars
  THEN CHOOSE j \in i..Len(s) : At(s, j) \in chars /\ \A m \in i..(j - 1) : At(s, m) \notin chars
  ELSE 0

\* The index of key in the key sequence ks, 0 when absent.
KeyIndex(ks, key) ==
  IF \E i \in 1..Len(ks) : ks[i] = key
  THEN CHOOSE i \in 1..Len(ks) : ks[i] = key /\ \A j \in 1..(i - 1) : ks[j] # key
  ELSE 0

\* dict.get(key, default)
Get(d, key, default) ==
  LET i == KeyIndex(d.k, key) IN IF i = 0 THEN default ELSE d.l[i]

\* d[key] = v: an existing key keeps its position, a new key is appended.
Put(d, key, v) ==
  LET i == KeyIndex(d.k, key)
  IN  IF i = 0 THEN JObj(Append(d.k, key), Append(d.l, v))
      ELSE JObj(d.k, [d.l EXCEPT ![i] = v])

\* dict.setdefault(key, default)
SetDefault(d, key, default) ==
  IF KeyIndex(d.k, key) = 0 THEN Put(d, key, default) ELSE d

(***************************************************************************)
(* Characters.  A TLA+ string cannot hold the backquote (U+0060): in every *)
(* text of the model "~" stands for it, and the tilde itself (U+007E) is   *)
(* not a character of the model.  The characters from U+0080 on are        *)
(* characters of the model when the module is read as UTF-8, which is when *)
(* HighChars has its 128 characters.                                       *)
(***************************************************************************)
\* U+0001 to U+007D, the character with code c at position c.
LowChars == "\t\n\f\r !\"#$%&'()*+,-./0123456789:;<=>?@ABCDEFGHIJKLMNOPQRSTUVWXYZ[\\]^_~abcdefghijklmnopqrstuvwxyz{|}"

\* U+007F
Del == ""

\* U+0080 to U+00FF, the character with code c at position c - 127.
HighChars == " ¡¢£¤¥¦§¨©ª«¬­®¯°±²³´µ¶·¸¹º»¼½¾¿ÀÁÂÃÄÅÆÇÈÉÊËÌÍÎÏÐÑÒÓÔÕÖ×ØÙÚÛÜÝÞßàáâãäåæçèéêëìíîïðñòóôõö÷øùúûüýþÿ"

\* The codes of the characters of the model.
Codes == (1..125) \cup {127} \cup (IF Len(HighChars) = 128 THEN 128..255 ELSE {})

\* chr(c)
chr(c) ==
  CASE c \in Codes /\ c <= 125 -> At(LowChars, c)
    [] c \in Codes /\ c = 127 -> Del
    [] c \in Codes /\ c >= 128 -> At(HighChars, c - 127)

\* ord(c)
ord(c) == CHOOSE n \in Codes : chr(n) = c

HexDigits == "0123456789abcdef"

\* The value of the hexadecimal digit c, -1 when c is not one.
HexVal(c) ==
  LET i == FirstIn(HexDigits, {c}, 1)
      j == FirstIn("ABCDEF", {c}, 1)
  IN  IF i # 0 THEN i - 1 ELSE IF j # 0 THEN j + 9 ELSE 0 - 1

\* "%02x" % n
Hex2(n) == At(HexDigits, (n \div 16) + 1) \o At(HexDigits, (n % 16) + 1)

Digits == {"0", "1", "2", "3", "4", "5", "6", "7", "8", "9"}

DigitVal(c) ==
  CASE c = "0" -> 0 [] c = "1" -> 1 [] c = "2" -> 2 [] c = "3" -> 3 [] c = "4" -> 4
    [] c = "5" -> 5 [] c = "6" -> 6 [] c = "7" -> 7 [] c = "8" -> 8 [] c = "9" -> 9

DigitChar(d) ==
  CASE d = 0 -> "0" [] d = 1 -> "1" [] d = 2 -> "2" [] d = 3 -> "3" [] d = 4 -> "4"
    [] d = 5 -> "5" [] d = 6 -> "6" [] d = 7 -> "7" [] d = 8 -> "8" [] d = 9 -> "9"

\* str(n) of an int
RECURSIVE Decimal(_)
Decimal(n) ==
  IF n < 0 THEN "-" \o Decimal(0 - n)
  ELSE IF n < 10 THEN DigitChar(n)
  ELSE Decimal(n \div 10) \o DigitChar(n % 10)

\* int(ds) of a run of digits; nine digits fit a TLC integer whatever they are.
ToInt(ds) ==
  LET F[i \in 0..Len(ds)] == IF i = 0 THEN 0 ELSE 10 * F[i - 1] + DigitVal(At(ds, i))
  IN  CASE Len(ds) <= 9 -> F[Len(ds)]

\* ds without its leading zeros.
RECURSIVE lzeros(_)
lzeros(ds) == IF At(ds, 1) = "0" THEN lzeros(From(ds, 2)) ELSE ds

\* ds without its trailing zeros.
RECURSIVE rzeros(_)
rzeros(ds) == IF At(ds, Len(ds)) = "0" THEN rzeros(SubSeq(ds, 1, Len(ds) - 1)) ELSE ds

\* "0" * n
RECURSIVE Zeros(_)
Zeros(n) == IF n <= 0 THEN "" ELSE "0" \o Zeros(n - 1)

(***************************************************************************)
(* float(): the double nearest to the decimal number  ip.fp * 10^ex, for   *)
(* the numbers whose significant digits a TLC integer holds.  X is the     *)
(* exponent of the number in scientific notation and lead its first nine   *)
(* digits.  The largest double is 1.7976931348623157e308: from             *)
(* 1.797693134862315808e308 on the result is infinite.  The smallest       *)
(* normal double is 2.2250738585072014e-308; up to 2.4703282292062327e-324 *)
(* the result is zero; between the two it is a subnormal, which the        *)
(* decimal digits do not determine, and the operator is undefined.         *)
(***************************************************************************)
MakeFloat(neg, ip, fp, ex) ==
  LET f == rzeros(fp)
      all == lzeros(ip \o f)
      sig == rzeros(all)
      e == ex - Len(f) + (Len(all) - Len(sig))
      X == Len(sig) - 1 + e
      lead == ToInt(SubSeq(sig \o Zeros(9), 1, 9))
  IN  CASE sig = "" -> JFloat(neg, 0, 0)
        [] sig # "" /\ X > 308 -> JInf(neg)
        [] sig # "" /\ X = 308 /\ Len(sig) <= 9 ->
             IF lead > 179769313 THEN JInf(neg) ELSE JFloat(neg, ToInt(sig), e)
        [] sig # "" /\ X > 0 - 308 /\ X < 308 -> JFloat(neg, ToInt(sig), e)
        [] sig # "" /\ X = 0 - 308 /\ Len(sig) <= 9 /\ lead > 222507385 ->
             JFloat(neg, ToInt(sig), e)
        [] sig # "" /\ X = 0 - 324 /\ Len(sig) <= 9 /\ lead <= 247032822 ->
             JFloat(neg, 0, 0)
        [] sig # "" /\ X < 0 - 324 -> JFloat(neg, 0, 0)

\* repr() of a float: the shortest digits that give the double back, in
\* positional notation when the exponent is -4 to 15 and else in scientific.
float_repr(v) ==
  LET ds == Decimal(v.n)
      nd == Len(ds)
      X == nd - 1 + v.e
      absX == IF X < 0 THEN 0 - X ELSE X
      sign == IF v.b THEN "-" ELSE ""
  IN  IF v.s = "nan" THEN "nan"
      ELSE IF v.s = "inf" THEN sign \o "inf"
      ELSE IF v.n = 0 THEN sign \o "0.0"
      ELSE IF X >= 0 - 4 /\ X <= 15
        THEN IF v.e >= 0 THEN sign \o ds \o Zeros(v.e) \o ".0"
             ELSE IF X >= 0 THEN sign \o Slice(ds, 1, X + 1) \o "." \o From(ds, X + 2)
             ELSE sign \o "0." \o Zeros(absX - 1) \o ds
      ELSE sign \o At(ds, 1) \o (IF nd > 1 THEN "." \o From(ds, 2) ELSE "")
             \o "e" \o (IF X < 0 THEN "-" ELSE "+")
             \o (IF absX < 10 THEN "0" ELSE "") \o Decimal(absX)

(***************************************************************************)
(* json.loads (the decoder of the json module, strict, with its C scanner):*)
(* ParseValue is scan_once, ScanString is scanstring, ParseNumber is       *)
(* _match_number, ParseMembers and ParseElements are the loops of          *)
(* _parse_object and _parse_array.  A failure carries the message of the   *)
(* JSONDecodeError and the position it names.                              *)
(***************************************************************************)
JsonWs == {" ", "\t", "\n", "\r"}

\* The characters below U+0020, which a strict decoder refuses in a string.
ControlChars == {chr(c) : c \in 1..31}

SimpleEscapes == {"\"", "\\", "/", "b", "f", "n", "r", "t"}

Unescape(c) ==
  CASE c = "\"" -> "\"" [] c = "\\" -> "\\" [] c = "/" -> "/" [] c = "b" -> chr(8)
    [] c = "f" -> "\f" [] c = "n" -> "\n" [] c = "r" -> "\r" [] c = "t" -> "\t"

ParseFail(msg, p) == [ok |-> FALSE, val |-> JNull, pos |-> p, msg |-> msg]
ParseOk(v, p) == [ok |-> TRUE, val |-> v, pos |-> p, msg |-> ""]

RECURSIVE SkipWs(_, _)
SkipWs(s, i) == IF At(s, i) \in JsonWs THEN SkipWs(s, i + 1) ELSE i

\* The body of the string literal whose opening quote is at begin, from
\* position i on: plain characters are taken up to the next quote, backslash
\* or control character.  A \uXXXX escape gives the character with that code;
\* the scanner wants a character after its four digits.
RECURSIVE ScanString(_, _, _, _)
ScanString(s, begin, i, acc) ==
  LET j == FirstIn(s, {"\"", "\\"} \cup ControlChars, i)
      c == At(s, j)
      got == acc \o Slice(s, i, j - 1)
      esc == At(s, j + 1)
      hex == [m \in 1..4 |-> HexVal(At(s, j + 1 + m))]
  IN  IF j = 0 THEN ParseFail("Unterminated string starting at", begin)
      ELSE IF c = "\"" THEN ParseOk(JStr(got), j + 1)
      ELSE IF c # "\\" THEN ParseFail("Invalid control character at", j)
      ELSE IF esc = "" THEN ParseFail("Unterminated string starting at", begin)
      ELSE IF esc = "u"
        THEN IF j + 5 >= Len(s) \/ \E m \in 1..4 : hex[m] < 0
             THEN ParseFail("Invalid \\uXXXX escape", j + 1)
             ELSE ScanString(s, begin, j + 6,
                    got \o chr(4096 * hex[1] + 256 * hex[2] + 16 * hex[3] + hex[4]))
      ELSE IF esc \in SimpleEscapes
        THEN ScanString(s, begin, j + 2, got \o Unescape(esc))
      ELSE ParseFail("Invalid \\escape", j)

\* The first position at or after i that does not hold a digit.
RECURSIVE DigitsEnd(_, _)
DigitsEnd(s, i) == IF At(s, i) \in Digits THEN DigitsEnd(s, i + 1) ELSE i

\* The exponent written by the digits ds; one too long for a TLC integer is
\* far outside the range of a double whatever its digits.
Exponent(ds) == IF Len(lzeros(ds)) > 9 THEN 999999999 ELSE ToInt(lzeros(ds))

\* (-?(?:0|[1-9]\d*))(\.\d+)?([eE][-+]?\d+)?  with a fraction or an exponent
\* the number is a float, else an int.
ParseNumber(s, i) ==
  LET neg == At(s, i) = "-"
      a == IF neg THEN i + 1 ELSE i
      b == IF At(s, a) = "0" THEN a + 1 ELSE DigitsEnd(s, a)
      hasfrac == At(s, b) = "." /\ At(s, b + 1) \in Digits
      c == IF hasfrac THEN DigitsEnd(s, b + 1) ELSE b
      d == IF At(s, c + 1) \in {"-", "+"} THEN c + 2 ELSE c + 1
      hasexp == At(s, c) \in {"e", "E"} /\ At(s, d) \in Digits
      z == IF hasexp THEN DigitsEnd(s, d) ELSE c
      ex == IF ~hasexp THEN 0
            ELSE IF At(s, c + 1) = "-" THEN 0 - Exponent(Slice(s, d, z - 1))
            ELSE Exponent(Slice(s, d, z - 1))
  IN  IF b = a THEN ParseFail("Expecting value", i)
      ELSE IF hasfrac \/ hasexp
        THEN ParseOk(MakeFloat(neg, Slice(s, a, b - 1),
                               IF hasfrac THEN Slice(s, b + 1, c - 1) ELSE "", ex), z)
      ELSE IF neg THEN ParseOk(JNum(0 - ToInt(Slice(s, a, b - 1))), b)
      ELSE ParseOk(JNum(ToInt(Slice(s, a, b - 1))), b)

ParseLiteral(s, i, word, v) ==
  IF i + Len(word) - 1 <= Len(s) /\ SubSeq(s, i, i + Len(word) - 1) = word
  THEN ParseOk(v, i + Len(word))
  ELSE ParseFail("Expecting value", i)

RECURSIVE ParseValue(_, _)
RECURSIVE ParseMembers(_, _, _)
RECURSIVE ParseElements(_, _, _)

\* The members of an object from position i (at a key); d holds those read so far.
ParseMembers(s, i, d) ==
  IF At(s, i) # "\""
  THEN ParseFail("Expecting property name enclosed in double quotes", i)
  ELSE
    LET key == ScanString(s, i, i + 1, "")
    IN  IF ~key.ok THEN key
        ELSE
          LET c == SkipWs(s, key.pos)
          IN  IF At(s, c) # ":" THEN ParseFail("Expecting ':' delimiter", c)
              ELSE
                LET v == ParseValue(s, SkipWs(s, c + 1))
                IN  IF ~v.ok THEN v
                    ELSE
                      LET e == SkipWs(s, v.pos)
                          d2 == Put(d, key.val.s, v.val)
                      IN  IF At(s, e) = "}" THEN ParseOk(d2, e + 1)
                          ELSE IF At(s, e) = ","
                            THEN ParseMembers(s, SkipWs(s, e + 1), d2)
                          ELSE ParseFail("Expecting ',' delimiter", e)

\* The elements of an array from position i (at a value); xs holds those read so far.
ParseElements(s, i, xs) ==
  LET v == ParseValue(s, i)
  IN  IF ~v.ok THEN v
      ELSE
        LET e == SkipWs(s, v.pos)
        IN  IF At(s, e) = "]" THEN ParseOk(JList(Append(xs, v.val)), e + 1)
            ELSE IF At(s, e) = ","
              THEN ParseElements(s, SkipWs(s, e + 1), Append(xs, v.val))
            ELSE ParseFail("Expecting ',' delimiter", e)

ParseValue(s, i) ==
  LET c == At(s, i)
  IN  IF c = "{"
        THEN LET j == SkipWs(s, i + 1)
             IN  IF At(s, j) = "}" THEN ParseOk(JObj(<<>>, <<>>), j + 1)
                 ELSE ParseMembers(s, j, JObj(<<>>, <<>>))
      ELSE IF c = "["
        THEN LET j == SkipWs(s, i + 1)
             IN  IF At(s, j) = "]" THEN ParseOk(JList(<<>>), j + 1)
                 ELSE ParseElements(s, j, <<>>)
      ELSE IF c = "\"" THEN ScanString(s, i, i + 1, "")
      ELSE IF c = "t" THEN ParseLiteral(s, i, "true", JBool(TRUE))
      ELSE IF c = "f" THEN ParseLiteral(s, i, "false", JBool(FALSE))
      ELSE IF c = "n" THEN ParseLiteral(s, i, "null", JNull)
      ELSE IF c = "N" THEN ParseLiteral(s, i, "NaN", JNaN)
      ELSE IF c = "I" THEN ParseLiteral(s, i, "Infinity", JInf(FALSE))
      ELSE IF c = "-" /\ ParseLiteral(s, i, "-Infinity", JInf(TRUE)).ok
        THEN ParseLiteral(s, i, "-Infinity", JInf(TRUE))
      ELSE ParseNumber(s, i)

\* json.loads(s): one value, with nothing but whitespace around it.  r is
\* the result of the one call of the scanner.
json_loads(s) ==
  CHOOSE out \in
    { IF r.ok /\ SkipWs(s, r.pos) # Len(s) + 1
      THEN ParseFail("Extra data", SkipWs(s, r.pos))
      ELSE r : r \in {ParseValue(s, SkipWs(s, 1))} } : TRUE

\* str() of the JSONDecodeError for a failure at position p of doc.
errmsg(msg, doc, p) ==
  LET newlines == {q \in 1..(p - 1) : At(doc, q) = "\n"}
      last == IF newlines = {} THEN 0 ELSE CHOOSE q \in newlines : \A m \in newlines : m <= q
  IN  msg \o ": line " \o Decimal(Cardinality(newlines) + 1)
          \o " column " \o Decimal(p - last)
          \o " (char " \o Decimal(p - 1) \o ")"

(***************************************************************************)
(* extract_json                                                            *)
(***************************************************************************)
\* The characters str.strip() removes: those for which str.isspace() holds.
Whitespace == {chr(c) : c \in {9, 10, 11, 12, 13, 28, 29, 30, 31, 32, 133, 160} \cap Codes}

RECURSIVE lstrip(_)
lstrip(s) == IF At(s, 1) \in Whitespace THEN lstrip(From(s, 2)) ELSE s

RECURSIVE rstrip(_)
rstrip(s) ==
  IF At(s, Len(s)) \in Whitespace THEN rstrip(SubSeq(s, 1, Len(s) - 1)) ELSE s

\* str.strip()
strip(s) == rstrip(lstrip(s))

\* The three backquotes.
Fence == "~~~"

\* Case folding of the letters the fence pattern names.  U+017F, which
\* re.IGNORECASE folds to s, is not a character a TLA+ string can hold.
lower(c) ==
  CASE c = "J" -> "j" [] c = "S" -> "s" [] c = "O" -> "o" [] c = "N" -> "n"
    [] OTHER -> c

\* re.sub(r"^FENCE(?:json)?", "", s, flags=re.IGNORECASE)
sub_open_fence(s) ==
  IF Len(s) >= 3 /\ SubSeq(s, 1, 3) = Fence
  THEN IF lower(At(s, 4)) = "j" /\ lower(At(s, 5)) = "s"
          /\ lower(At(s, 6)) = "o" /\ lower(At(s, 7)) = "n"
       THEN From(s, 8)
       ELSE From(s, 4)
  ELSE s

\* re.sub(r"FENCE$", "", s): s has been stripped, so $ is the very end.
sub_close_fence(s) ==
  IF Len(s) >= 3 /\ SubSeq(s, Len(s) - 2, Len(s)) = Fence
  THEN SubSeq(s, 1, Len(s) - 3)
  ELSE s

\* Lines 77-79: the text the scan runs on.
clean(s) == strip(sub_close_fence(strip(sub_open_fence(strip(s)))))

\* str.find(ch): the first position of ch, 0 when there is none.
find(s, ch) == FirstIn(s, {ch}, 1)

\* An exception of class kind whose str() is msg; a returned value.
Raise(kind, msg) == [ok |-> FALSE, kind |-> kind, err |-> msg, val |-> JNull]
Return(v) == [ok |-> TRUE, kind |-> "", err |-> "", val |-> v]

\* Lines 94-98: parse the candidate, re-raise the decoder error.  r is the
\* result of the one call of json.loads.
loads_or_raise(json_str) ==
  CHOOSE out \in
    { IF r.ok THEN Return(r.val)
      ELSE Raise("JSONDecodeError", errmsg(r.msg, json_str, r.pos))
      : r \in {json_loads(json_str)} } : TRUE

\* Lines 86-101: the loop over range(start, len(text)), from position i on
\* with the given depth.  Only a brace changes the state of the loop, so the
\* positions up to the next brace are passed over in one step.
RECURSIVE scan(_, _, _, _)
scan(s, start, i, depth) ==
  LET j == FirstIn(s, {"{", "}"}, i)
  IN  IF j = 0 THEN Raise("ValueError", "Could not match complete JSON")
      ELSE IF At(s, j) = "{" THEN scan(s, start, j + 1, depth + 1)
      ELSE IF depth - 1 = 0 THEN loads_or_raise(SubSeq(s, start, j))
      ELSE scan(s, start, j + 1, depth - 1)

\* Faulty variant: the candidate runs to the last closing brace of the text.
extract_json_greedy(text) ==
  LET s == clean(text)
      start == find(s, "{")
      closes == {j \in 1..Len(s) : At(s, j) = "}" /\ j > start}
  IN  IF start = 0 THEN Raise("ValueError", "No JSON detected in LLM response")
      ELSE IF closes = {} THEN Raise("ValueError", "Could not match complete JSON")
      ELSE loads_or_raise(SubSeq(s, start, CHOOSE j \in closes : \A m \in closes : m <= j))

\* Faulty variant: a candidate that does not parse is dropped and the scan starts
\* again at the next opening brace.
extract_json_retry(text) ==
  LET s == clean(text)
      start == find(s, "{")
      r == scan(s, start, start, 0)
      nxt == FirstIn(s, {"{"}, start + 1)
  IN  IF start = 0 THEN Raise("ValueError", "No JSON detected in LLM response")
      ELSE IF ~r.ok /\ r.kind = "JSONDecodeError" /\ nxt # 0 THEN scan(s, nxt, nxt, 0)
      ELSE r

extract_json(text) ==
  LET s == clean(text)
      start == find(s, "{")
  IN  IF start = 0 THEN Raise("ValueError", "No JSON detected in LLM response")
      ELSE scan(s, start, start, 0)

(***************************************************************************)
(* Python's str() and repr() of a decoded value, and json.dumps.           *)
(***************************************************************************)
Contains(s, ch) == \E i \in 1..Len(s) : At(s, i) = ch

\* The characters for which str.isprintable() does not hold.
NonPrintable == {chr(c) : c \in ((1..31) \cup (127..160) \cup {173}) \cap Codes}

ReprEscape(q, c) ==
  IF c = q THEN "\\" \o q
  ELSE IF c = "\\" THEN "\\\\"
  ELSE IF c = "\n" THEN "\\n"
  ELSE IF c = "\t" THEN "\\t"
  ELSE IF c = "\r" THEN "\\r"
  ELSE IF c \in NonPrintable THEN "\\x" \o Hex2(ord(c))
  ELSE c

RECURSIVE repr_chars(_, _, _)
repr_chars(s, i, q) ==
  IF i > Len(s) THEN "" ELSE ReprEscape(q, At(s, i)) \o repr_chars(s, i + 1, q)

\* repr() of a str: single quotes, unless it holds one and no double quote.
repr_str(s) ==
  LET q == IF Contains(s, "'") /\ ~Contains(s, "\"") THEN "\"" ELSE "'"
  IN  q \o repr_chars(s, 1, q) \o q

RECURSIVE py_repr(_)
RECURSIVE repr_items(_, _)
RECURSIVE repr_pairs(_, _, _)

repr_items(xs, i) ==
  IF i > Len(xs) THEN ""
  ELSE (IF i > 1 THEN ", " ELSE "") \o py_repr(xs[i]) \o repr_items(xs, i + 1)

repr_pairs(ks, vs, i) ==
  IF i > Len(ks) THEN ""
  ELSE (IF i > 1 THEN ", " ELSE "") \o repr_str(ks[i]) \o ": " \o py_repr(vs[i])
         \o repr_pairs(ks, vs, i + 1)

py_repr(v) ==
  CASE v.t = "null" -> "None"
    [] v.t = "bool" -> IF v.b THEN "True" ELSE "False"
    [] v.t = "num" -> Decimal(v.n)
    [] v.t = "float" -> float_repr(v)
    [] v.t = "str" -> repr_str(v.s)
    [] v.t = "list" -> "[" \o repr_items(v.l, 1) \o "]"
    [] v.t = "obj" -> "{" \o repr_pairs(v.k, v.l, 1) \o "}"

\* str(v): a str is itself, anything else is its repr.
py_str(v) == IF v.t = "str" THEN v.s ELSE py_repr(v)

\* The characters json.dumps writes as they are: U+0020 to U+007E.
Ascii == {chr(c) : c \in (32..126) \cap Codes}

JsonEscape(c) ==
  IF c = "\"" THEN "\\\""
  ELSE IF c = "\\" THEN "\\\\"
  ELSE IF c = "\n" THEN "\\n"
  ELSE IF c = "\r" THEN "\\r"
  ELSE IF c = "\t" THEN "\\t"
  ELSE IF c = "\f" THEN "\\f"
  ELSE IF c = chr(8) THEN "\\b"
  ELSE IF c \in Ascii THEN c
  ELSE "\\u00" \o Hex2(ord(c))

RECURSIVE dumps_chars(_, _)
dumps_chars(s, i) ==
  IF i > Len(s) THEN "" ELSE JsonEscape(At(s, i)) \o dumps_chars(s, i + 1)

dumps_str(s) == "\"" \o dumps_chars(s, 1) \o "\""

\* float.__repr__, and the names json.dumps writes for the floats that are
\* not finite.
dumps_float(v) ==
  IF v.s = "nan" THEN "NaN"
  ELSE IF v.s = "inf" THEN (IF v.b THEN "-Infinity" ELSE "Infinity")
  ELSE float_repr(v)

RECURSIVE json_dumps(_)
RECURSIVE dumps_items(_, _)
RECURSIVE dumps_pairs(_, _, _)

dumps_items(xs, i) ==
  IF i > Len(xs) THEN ""
  ELSE (IF i > 1 THEN ", " ELSE "") \o json_dumps(xs[i]) \o dumps_items(xs, i + 1)

dumps_pairs(ks, vs, i) ==
  IF i > Len(ks) THEN ""
  ELSE (IF i > 1 THEN ", " ELSE "") \o dumps_str(ks[i]) \o ": " \o json_dumps(vs[i])
         \o dumps_pairs(ks, vs, i + 1)

\* json.dumps(v) with its default separators.
json_dumps(v) ==
  CASE v.t = "null" -> "null"
    [] v.t = "bool" -> IF v.b THEN "true" ELSE "false"
    [] v.t = "num" -> Decimal(v.n)
    [] v.t = "float" -> dumps_float(v)
    [] v.t = "str" -> dumps_str(v.s)
    [] v.t = "list" -> "[" \o dumps_items(v.l, 1) \o "]"
    [] v.t = "obj" -> "{" \o dumps_pairs(v.k, v.l, 1) \o "}"

(***************************************************************************)
(* normalize_suggestions                                                   *)
(***************************************************************************)
\* What enumerate() iterates over: the items of a list, the characters of a
\* str, the keys of a dict; any other value is not iterable (TypeError).
iterate(v) ==
  CASE v.t = "list" -> [ok |-> TRUE, items |-> v.l]
    [] v.t = "str" -> [ok |-> TRUE, items |-> [i \in 1..Len(v.s) |-> JStr(At(v.s, i))]]
    [] v.t = "obj" -> [ok |-> TRUE, items |-> [i \in 1..Len(v.k) |-> JStr(v.k[i])]]
    [] OTHER -> [ok |-> FALSE, items |-> <<>>]

Suggestion(id, title, detail) == JObj(<<"id", "title", "detail">>, <<id, title, detail>>)

\* f"S{i+1}"
fallback_id(i) == JStr("S" \o Decimal(i + 1))

\* Lines 111-129: the entry appended for element s at 0-based position i.
normalize_one(i, s) ==
  IF s.t = "str"
    THEN Suggestion(fallback_id(i), JStr(SubSeq(s.s, 1, Min(40, Len(s.s)))), s)
  ELSE IF s.t = "obj"
    THEN Suggestion(Get(s, "id", fallback_id(i)),
                    Get(s, "title", Get(s, "description", JStr("Suggestion"))),
                    Get(s, "detail", Get(s, "description", JStr(""))))
  ELSE Suggestion(fallback_id(i), JStr("Suggestion"), JStr(py_str(s)))

\* Faulty variant: null elements of the list are skipped.
RECURSIVE suggestions_loop_skip(_, _, _)
suggestions_loop_skip(items, i, normalized) ==
  IF i >= Len(items) THEN normalized
  ELSE suggestions_loop_skip(items, i + 1,
         IF items[i + 1].t = "null" THEN normalized
         ELSE Append(normalized, normalize_one(i, items[i + 1])))

\* Lines 109-130: the loop, i the 0-based position of the next element.
RECURSIVE suggestions_loop(_, _, _)
suggestions_loop(items, i, normalized) ==
  IF i >= Len(items) THEN normalized
  ELSE suggestions_loop(items, i + 1, Append(normalized, normalize_one(i, items[i + 1])))

normalize_suggestions(suggestions) ==
  LET it == iterate(suggestions)
  IN  IF ~it.ok THEN Raise("TypeError", "'" \o TypeName(suggestions) \o "' object is not iterable")
      ELSE Return(JList(suggestions_loop(it.items, 0, <<>>)))

(***************************************************************************)
(* normalize_metrics                                                       *)
(***************************************************************************)
\* str.count("\n")
RECURSIVE count(_, _, _)
count(s, ch, i) ==
  IF i > Len(s) THEN 0
  ELSE (IF At(s, i) = ch THEN 1 ELSE 0) + count(s, ch, i + 1)

MetricKeys ==
  <<"language", "loc_before", "loc_after", "reduction", "redundant_removed",
    "security_improved">>

\* metrics.get needs a dict (AttributeError otherwise); code is a str here.
normalize_metrics(metrics, lang, src) ==
  LET loc == count(src, "\n", 1) + 1
  IN  IF metrics.t # "obj"
        THEN Raise("AttributeError", "'" \o TypeName(metrics) \o "' object has no attribute 'get'")
      ELSE Return(JObj(MetricKeys,
             << lang,
                Get(metrics, "Lines of Code Before", JNum(loc)),
                Get(metrics, "Lines of Code After", JNum(loc)),
                Get(metrics, "Lines of Code Reduced", JNum(0)),
                Get(metrics, "Redundant Variables Removed", JNull),
                Get(metrics, "String Input Security Improved", JBool(FALSE)) >>))

(***************************************************************************)
(* POST /optimize (lines 149-176).  One request is in flight at a time;    *)
(* trace lists, in order, the steps the request has taken.                 *)
(***************************************************************************)
JAbsent == [t |-> "absent", b |-> FALSE, n |-> 0, e |-> 0, s |-> "", k |-> <<>>, l |-> <<>>]

\* The object with the given <<key, value>> pairs, leaving out absent values.
RECURSIVE MakeObj(_, _)
MakeObj(pairs, d) ==
  IF pairs = <<>> THEN d
  ELSE MakeObj(Tail(pairs),
               IF Head(pairs)[2].t = "absent" THEN d
               ELSE Put(d, Head(pairs)[1], Head(pairs)[2]))

EmptyObj == JObj(<<>>, <<>>)

\* Line 156: isinstance(code, str)
valid_code(c) == c.t = "str"

\* Line 157
validation_error == JObj(<<"error">>, <<JStr("~code~ must be a string")>>)

\* Faulty variant: the error is answered without its prefix.
llm_error_bare(e) == JObj(<<"error">>, <<JStr(e)>>)

\* Line 163
llm_error(e) == JObj(<<"error">>, <<JStr("LLM error: " \o e)>>)

\* Lines 166-168
ensure_defaults(p, src) ==
  SetDefault(SetDefault(SetDefault(p, "optimized_code", src), "suggestions", JList(<<>>)),
             "metrics", EmptyObj)

\* An exception that leaves the handler: the framework answers 500.
InternalServerError == JStr("Internal Server Error")

CodeChoices ==
  {JAbsent, JNull, JNum(1), JList(<<>>), JStr(""), JStr("int main(){}"), JStr("a\nb\nc")}

LanguageChoices == {JAbsent, JStr("c")}

\* What request.get_json(force=True) returns (line 151): the JSON value of
\* the request body, an object with or without code and language, or a
\* value that is not an object.
Requests ==
  {MakeObj(<<<<"language", lg>>, <<"code", c>>>>, EmptyObj) :
     lg \in LanguageChoices, c \in CodeChoices}
    \cup {JNull, JNum(1), JStr("x"), JList(<<JNum(1)>>), JBool(TRUE), JFloat(FALSE, 25, 0 - 1)}

OptimizedChoices == {JAbsent, JStr("int main(void){}"), JNum(5)}

SuggestionChoices ==
  { JAbsent, JNull, JStr("ab"), JNum(3), JList(<<>>),
    JList(<<JStr("use void"), JObj(<<"id">>, <<JNum(1)>>), JNum(5)>>),
    JObj(<<"k">>, <<JNum(1)>>) }

MetricsChoices ==
  { JAbsent, JNull, JStr("m"), JNum(2), JList(<<>>), EmptyObj,
    JObj(<<"Lines of Code Reduced">>, <<JNum(0)>>),
    JObj(<<"Lines of Code Before", "loc_after">>, <<JStr("ten"), JNum(1)>>) }

\* Line 10
OLLAMA_URL == "http://127.0.0.1:11434/api/generate"

\* The connection pool of OLLAMA_URL, as the exceptions of requests name it.
PoolName == "HTTPConnectionPool(host='127.0.0.1', port=11434)"

\* The objects the model may answer with.
ModelObjects ==
  {MakeObj(<<<<"optimized_code", o>>, <<"suggestions", sg>>, <<"metrics", m>>>>, EmptyObj) :
     o \in OptimizedChoices, sg \in SuggestionChoices, m \in MetricsChoices}

\* What call_ollama (lines 56-68) hands back: the "response" field of the
\* model server's answer (a text, bare or fenced or without a complete JSON
\* object; or a value that is not a text), or an exception of the call:
\* of requests.post (line 60; the texts are those of requests 2.33),
\* raise_for_status (line 65), resp.json() on an answer that is not JSON
\* (line 66), data["response"] on an answer that is a list, null or an
\* object without the key (lines 67-68).
ModelOutcomes ==
  {Return(JStr(json_dumps(x))) : x \in ModelObjects}
    \cup {Return(JStr(Fence \o "json\n" \o json_dumps(x) \o "\n" \o Fence)) : x \in ModelObjects}
    \cup {Return(JStr("no json here")), Return(JStr("{\"optimized_code\": \"x\"")),
          Return(JStr("{\"optimized_code\": x}")), Return(JStr("[1, 2]")),
          Return(JStr("{\"metrics\": {\"Lines of Code Reduced\": 1.5}}")),
          Return(JStr("\f{\"suggestions\": [\"\\u0041\", 2.50, NaN]}\f"))}
    \cup {Return(JNull), Return(JNum(7)), Return(JList(<<>>))}
    \cup {Raise("ConnectionError",
                PoolName \o ": Max retries exceeded with url: /api/generate "
                  \o "(Caused by NewConnectionError(\"HTTPConnection(host='127.0.0.1', "
                  \o "port=11434): Failed to establish a new connection: "
                  \o "[Errno 111] Connection refused\"))"),
          Raise("ReadTimeout", PoolName \o ": Read timed out. (read timeout=120)"),
          Raise("HTTPError", "500 Server Error: Internal Server Error for url: " \o OLLAMA_URL),
          Raise("JSONDecodeError", errmsg("Expecting value", "", 1)),
          Raise("TypeError", "list indices must be integers or slices, not str"),
          Raise("TypeError", "'NoneType' object is not subscriptable"),
          Raise("KeyError", "'response'")}

NoFunctionCall == args = [f |-> "none"] /\ ret = Raise("", "")

Init ==
  /\ pc = "idle"
  /\ data = JNull /\ language = JNull /\ code = JNull /\ raw = JNull
  /\ parsed = JNull /\ exc = "" /\ status = 0 /\ body = JNull /\ trace = <<>>
  /\ NoFunctionCall

\* A request arrives (line 151).
Receive ==
  /\ pc \in {"idle", "done"}
  /\ \E d \in Requests : data' = d
  /\ language' = JNull /\ code' = JNull /\ raw' = JNull /\ parsed' = JNull
  /\ exc' = "" /\ status' = 0 /\ body' = JNull /\ trace' = <<>>
  /\ pc' = "received"
  /\ UNCHANGED <<args, ret>>

\* Lines 153-157; data.get needs a dict: on any other body the
\* AttributeError of line 153 leaves the handler.
Validate ==
  /\ pc = "received"
  /\ trace' = Append(trace, "validate")
  /\ IF data.t # "obj"
     THEN /\ exc' = "'" \o TypeName(data) \o "' object has no attribute 'get'"
          /\ pc' = "done" /\ status' = 500 /\ body' = InternalServerError
          /\ UNCHANGED <<language, code>>
     ELSE /\ language' = Get(data, "language", JNull)
          /\ code' = Get(data, "code", JNull)
          /\ IF valid_code(code')
             THEN pc' = "call_ollama" /\ UNCHANGED <<status, body>>
             ELSE pc' = "done" /\ status' = 400 /\ body' = validation_error
          /\ exc' = exc
  /\ UNCHANGED <<data, raw, parsed, args, ret>>

\* Line 160
CallOllama ==
  /\ pc = "call_ollama"
  /\ \E r \in ModelOutcomes :
       IF r.ok THEN raw' = r.val /\ exc' = exc /\ pc' = "extract_json"
       ELSE raw' = raw /\ exc' = r.err /\ pc' = "except"
  /\ trace' = Append(trace, "call_ollama")
  /\ UNCHANGED <<data, language, code, parsed, status, body, args, ret>>

\* Line 161; a response that is not a str has no strip() (AttributeError).
Extract ==
  /\ pc = "extract_json"
  /\ LET r == IF raw.t = "str" THEN extract_json(raw.s)
              ELSE Raise("AttributeError",
                         "'" \o TypeName(raw) \o "' object has no attribute 'strip'")
     IN  IF r.ok THEN parsed' = r.val /\ exc' = exc /\ pc' = "normalize"
         ELSE parsed' = parsed /\ exc' = r.err /\ pc' = "except"
  /\ trace' = Append(trace, "extract_json")
  /\ UNCHANGED <<data, language, code, raw, status, body, args, ret>>

\* Lines 162-163
Except ==
  /\ pc = "except"
  /\ status' = 500
  /\ body' = llm_error(exc)
  /\ pc' = "done"
  /\ UNCHANGED <<data, language, code, raw, parsed, exc, trace, args, ret>>

\* Lines 165-176
Normalize ==
  /\ pc = "normalize"
  /\ LET p1 == ensure_defaults(parsed, code)
         ns == normalize_suggestions(Get(p1, "suggestions", JList(<<>>)))
         p2 == Put(p1, "suggestions", ns.val)
         nm == normalize_metrics(Get(p2, "metrics", EmptyObj), language, code.s)
         p3 == Put(p2, "metrics", nm.val)
     IN  IF ~ns.ok
           THEN /\ parsed' = p1 /\ exc' = ns.err
                /\ status' = 500 /\ body' = InternalServerError
                /\ trace' = Append(trace, "normalize_suggestions")
         ELSE IF ~nm.ok
           THEN /\ parsed' = p2 /\ exc' = nm.err
                /\ status' = 500 /\ body' = InternalServerError
                /\ trace' = trace \o <<"normalize_suggestions", "normalize_metrics">>
         ELSE /\ parsed' = p3 /\ exc' = exc
              /\ status' = 200 /\ body' = p3
              /\ trace' = trace \o <<"normalize_suggestions", "normalize_metrics">>
  /\ pc' = "done"
  /\ UNCHANGED <<data, language, code, raw, args, ret>>

Next == Receive \/ Validate \/ CallOllama \/ Extract \/ Except \/ Normalize

Spec == Init /\ [][Next]_vars

(***************************************************************************)
(* The pure functions, each applied once to an input drawn from a bounded  *)
(* set.                                                                    *)
(***************************************************************************)
NoRequest ==
  /\ data = JNull /\ language = JNull /\ code = JNull /\ raw = JNull
  /\ parsed = JNull /\ exc = "" /\ status = 0 /\ body = JNull /\ trace = <<>>

handler_vars == <<data, language, code, raw, parsed, exc, status, body, trace>>

Alphabet == {"{", "}", "\"", ":", "1"}

\* The strings over alphabet of length at most n.
RECURSIVE Strs(_, _)
Strs(alphabet, n) ==
  IF n = 0 THEN {""}
  ELSE LET shorter == Strs(alphabet, n - 1)
       IN  shorter \cup {s \o c : s \in {x \in shorter : Len(x) = n - 1}, c \in alphabet}

Wrappers ==
  { <<Fence \o "json\n", "\n" \o Fence>>, <<Fence \o "JSON", Fence>>,
    <<Fence \o "\n", "">>, <<Fence \o "jso", "">>, <<" \n", Fence \o " ">>,
    <<Fence \o "Json" \o Fence, Fence \o "x">>,
    <<"Sure:\n", "\nok">>, <<" 1: ", " {\"\":1}">>, <<"json", "\n">>,
    <<"\f" \o Fence \o "json", Fence \o "\f">> }

Texts ==
  Strs(Alphabet, MaxLen)
    \cup {w[1] \o c \o w[2] :
            w \in Wrappers,
            c \in Strs(Alphabet, MaxWrapped)
                    \cup {"{\"\":1}", "{\"\":{}}", "{\"\":1.5}", "{\"\":\"\\u0041\\/\"}"}}

InitExtract ==
  /\ pc = "call"
  /\ args \in {[f |-> "extract_json", text |-> t] : t \in Texts}
  /\ ret = Raise("", "")
  /\ NoRequest

ApplyExtract ==
  /\ pc = "call"
  /\ ret' = extract_json(args.text)
  /\ pc' = "returned"
  /\ UNCHANGED <<handler_vars, args>>

NextExtract == ApplyExtract

SpecExtract == InitExtract /\ [][NextExtract]_vars

\* The objects json.dumps is given for the round trip: keys without braces,
\* string values over braces and a letter, bare or inside a list or an object,
\* the float 1.5 and a string that json.dumps writes with escapes.
BraceStrings == Strs({"{", "}", "x"}, MaxStr)

RoundTripValues ==
  {JStr(x) : x \in BraceStrings} \cup {JNum(1), JNull, JFloat(FALSE, 15, 0 - 1), JStr("\f\"")}
    \cup {JList(<<JStr(x)>>) : x \in BraceStrings}
    \cup {JObj(<<"a">>, <<JStr(x)>>) : x \in BraceStrings}

RoundTripObjects ==
  {EmptyObj} \cup {JObj(<<"a">>, <<v>>) : v \in RoundTripValues}
    \cup {JObj(<<"a", "b">>, <<v, w>>) : v \in RoundTripValues, w \in RoundTripValues}

InitRoundTrip ==
  /\ pc = "call"
  /\ args \in {[f |-> "extract_json", x |-> x, text |-> json_dumps(x)] : x \in RoundTripObjects}
  /\ ret = Raise("", "")
  /\ NoRequest

SpecRoundTrip == InitRoundTrip /\ [][NextExtract]_vars

\* The elements of the lists normalize_suggestions is given.
LongString == "0123456789012345678901234567890123456789abcde"

SuggestionFields ==
  <<<<"id", JStr("I")>>, <<"title", JStr("T")>>, <<"detail", JStr("D")>>,
    <<"description", JStr("x")>>>>

\* The <<key, value>> pairs of fields whose positions are in sel, in order.
Select(fields, sel) ==
  LET F[i \in 0..Len(fields)] ==
        IF i = 0 THEN EmptyObj
        ELSE IF i \in sel THEN Put(F[i - 1], fields[i][1], fields[i][2]) ELSE F[i - 1]
  IN  F[Len(fields)]

Elements ==
  {JStr("fix bug"), JStr(LongString), JNum(7), JBool(TRUE), JNull, JFloat(FALSE, 25, 0 - 1),
   JList(<<JNum(1), JStr("a")>>),
   JObj(<<"id", "title", "description">>, <<JNull, JStr(""), JStr("d")>>)}
    \cup {Select(SuggestionFields, sel) : sel \in SUBSET (1..4)}

SuggestionLists == UNION {[1..n -> Elements] : n \in 0..MaxSugg}

InitSuggestions ==
  /\ pc = "call"
  /\ args \in {[f |-> "normalize_suggestions", suggestions |-> JList(xs)] :
                 xs \in SuggestionLists}
  /\ ret = Raise("", "")
  /\ NoRequest

ApplySuggestions ==
  /\ pc = "call"
  /\ ret' = normalize_suggestions(args.suggestions)
  /\ pc' = "returned"
  /\ UNCHANGED <<handler_vars, args>>

NextSuggestions == ApplySuggestions

SpecSuggestions == InitSuggestions /\ [][NextSuggestions]_vars

\* The raw metrics normalize_metrics is given: each of the five keys it reads
\* present or not, with or without the names the prompt asks for.
PromptNames ==
  <<<<"language", JStr("rust")>>, <<"loc_before", JNum(99)>>, <<"loc_after", JNum(98)>>,
    <<"reduction", JNum(97)>>>>

RawMetrics ==
  {MakeObj(<<<<"Lines of Code Before", lb>>, <<"Lines of Code After", la>>,
             <<"Lines of Code Reduced", lr>>, <<"Redundant Variables Removed", rv>>,
             <<"String Input Security Improved", si>>>>, base) :
     lb \in {JAbsent, JNum(10), JNull, JFloat(FALSE, 105, 0 - 1)}, la \in {JAbsent, JNum(8)},
     lr \in {JAbsent, JNum(2), JNum(0)}, rv \in {JAbsent, JNum(1)},
     si \in {JAbsent, JBool(TRUE)}, base \in {EmptyObj, MakeObj(PromptNames, EmptyObj)}}

InitMetrics ==
  /\ pc = "call"
  /\ args \in {[f |-> "normalize_metrics", metrics |-> m, language |-> lg, code |-> c] :
                 m \in RawMetrics, lg \in {JStr("c"), JNull},
                 c \in {"", "int main(){}", "a\nb\nc", "x\n"}}
  /\ ret = Raise("", "")
  /\ NoRequest

ApplyMetrics ==
  /\ pc = "call"
  /\ ret' = normalize_metrics(args.metrics, args.language, args.code)
  /\ pc' = "returned"
  /\ UNCHANGED <<handler_vars, args>>

NextMetrics == ApplyMetrics

SpecMetrics == InitMetrics /\ [][NextMetrics]_vars

(***************************************************************************)
(* Properties.                                                             *)
(***************************************************************************)
InTrace(step) == \E i \in 1..Len(trace) : trace[i] = step

Times(step) == Cardinality({i \in 1..Len(trace) : trace[i] = step})

Has(d, key) == \E i \in 1..Len(d.k) : d.k[i] = key

Val(d, key) == d.l[CHOOSE i \in 1..Len(d.k) : d.k[i] = key]

StartsWith(s, prefix) == Len(s) >= Len(prefix) /\ SubSeq(s, 1, Len(prefix)) = prefix

EndsWith(s, suffix) ==
  Len(s) >= Len(suffix) /\ SubSeq(s, Len(s) - Len(suffix) + 1, Len(s)) = suffix

\* The handler got an object out of extract_json and has answered.
AnsweredAfterExtraction == pc = "done" /\ InTrace("extract_json") /\ parsed.t = "obj"

\* C1: once extract_json has returned an object, the handler runs defaulting,
\* normalize_suggestions and normalize_metrics without an error and answers
\* 200, whatever the types of the object's suggestions and metrics values.
C1_NormalizationCannotFail ==
  AnsweredAfterExtraction =>
    /\ status = 200
    /\ exc = ""
    /\ InTrace("normalize_suggestions") /\ InTrace("normalize_metrics")

\* The text the scan of extract_json runs on, for the call in args.
Cleaned == clean(args.text)

\* s is t without some of its first and some of its last characters.
IsSliceOf(s, t) == \E a \in 1..(Len(t) + 1) : s = Slice(t, a, Min(Len(t), a + Len(s) - 1))

\* Opening braces minus closing braces among the positions a..b of s.
Balance(s, a, b) ==
  Cardinality({i \in a..b : At(s, i) = "{"}) - Cardinality({i \in a..b : At(s, i) = "}"})

HasOpen == \E i \in 1..Len(Cleaned) : At(Cleaned, i) = "{"

\* The leftmost opening brace.
Open == CHOOSE i \in 1..Len(Cleaned) :
          At(Cleaned, i) = "{" /\ \A j \in 1..(i - 1) : At(Cleaned, j) # "{"

HasClose == HasOpen /\ \E j \in Open..Len(Cleaned) : Balance(Cleaned, Open, j) = 0

\* The first position at which the depth counted from Open is back to zero.
Close == CHOOSE j \in Open..Len(Cleaned) :
           Balance(Cleaned, Open, j) = 0 /\ \A m \in Open..(j - 1) : Balance(Cleaned, Open, m) # 0

Candidate == SubSeq(Cleaned, Open, Close)

\* C2: the only candidate is the substring from the leftmost opening brace to
\* the first position where the brace depth, counted over every character,
\* is back to zero; extract_json returns the parse of exactly that substring,
\* and the text before and after it does not change the result.
C2_FirstBalancedCandidate ==
  (pc = "returned" /\ args.f = "extract_json") =>
    LET found == HasClose
        cand == IF found THEN Candidate ELSE ""
        value == json_loads(cand)
    IN  /\ ret.ok => found /\ value.ok /\ ret.val = value.val
        /\ (found /\ value.ok) => ret = Return(value.val)
        /\ found => /\ ret = extract_json(cand)
                    /\ ret = extract_json("Sure: " \o cand \o "} {\"1\": 1}")
        /\ IsSliceOf(Cleaned, args.text)
        /\ (~StartsWith(strip(args.text), Fence) /\ ~EndsWith(strip(args.text), Fence))
             => Cleaned = strip(args.text)

C2_Witness ==
  /\ pc = "returned" /\ args.f = "extract_json" /\ ret.ok
  /\ Open > 1 /\ Close < Len(Cleaned)
  /\ \E i \in (Close + 1)..Len(Cleaned) : At(Cleaned, i) = "{"

\* C3: extract_json raises and returns nothing when the cleaned text has no
\* opening brace, when the depth never returns to zero, and when the first
\* balanced candidate is not valid JSON; in the last case no later opening
\* brace is tried.
C3_ExtractionErrors ==
  (pc = "returned" /\ args.f = "extract_json") =>
    LET found == HasClose
        cand == IF found THEN Candidate ELSE ""
        value == json_loads(cand)
    IN  /\ ~HasOpen => ret = Raise("ValueError", "No JSON detected in LLM response")
        /\ (HasOpen /\ ~found) => ret = Raise("ValueError", "Could not match complete JSON")
        /\ (found /\ ~value.ok) =>
             ret = Raise("JSONDecodeError", errmsg(value.msg, cand, value.pos))
        /\ ~ret.ok => ret.val = JNull

\* The first candidate does not parse although a later object of the text does.
C3_Witness ==
  /\ pc = "returned" /\ args.f = "extract_json"
  /\ HasClose /\ ~json_loads(Candidate).ok /\ ~ret.ok
  /\ extract_json(From(Cleaned, Close + 1)).ok

\* Every string value of v, at any depth, holds as many opening as closing braces.
RECURSIVE BalancedStrings(_)
BalancedStrings(v) ==
  CASE v.t = "str" -> Balance(v.s, 1, Len(v.s)) = 0
    [] v.t \in {"list", "obj"} -> \A i \in 1..Len(v.l) : BalancedStrings(v.l[i])
    [] OTHER -> TRUE

\* C4: for every JSON object X whose string values hold as many opening as
\* closing braces, extract_json(json.dumps(X)) returns X.
C4_RoundTrip ==
  (pc = "returned" /\ args.f = "extract_json" /\ BalancedStrings(args.x)) =>
    ret = Return(args.x)

\* The code of the request; absent when the body has none.
RequestCode == IF data.t = "obj" THEN Get(data, "code", JAbsent) ELSE JAbsent

\* C5: a request whose code is missing or not a string is answered 400 with
\* the error "`code` must be a string", without a model call, an extraction
\* or a normalization; the model is called only after validation has passed.
C5_ValidationFirst ==
  /\ (pc \notin {"idle", "received"} /\ RequestCode.t # "str") =>
       /\ pc = "done" /\ status = 400
       /\ body = JObj(<<"error">>, <<JStr("~code~ must be a string")>>)
       /\ trace = <<"validate">>
       /\ raw = JNull /\ parsed = JNull
  /\ InTrace("call_ollama") =>
       /\ trace[1] = "validate" /\ RequestCode.t = "str" /\ code = RequestCode

CallFailed == InTrace("call_ollama") /\ ~InTrace("extract_json") /\ pc \in {"except", "done"}

ExtractionFailed == InTrace("extract_json") /\ parsed.t # "obj"

\* C6: with a string code the model is called exactly once; if the call or
\* the extraction fails the answer is 500 with only an error field that
\* starts with "LLM error: ", with no second call and no normalization.
C6_FailsWholesale ==
  /\ Times("call_ollama") <= 1
  /\ (pc = "done" /\ RequestCode.t = "str") => Times("call_ollama") = 1
  /\ (pc = "done" /\ (CallFailed \/ ExtractionFailed)) =>
       /\ status = 500
       /\ body.t = "obj" /\ body.k = <<"error">>
       /\ body.l[1].t = "str" /\ StartsWith(body.l[1].s, "LLM error: ")
       /\ ~InTrace("normalize_suggestions") /\ ~InTrace("normalize_metrics")

C6_Witness ==
  /\ pc = "done" /\ ExtractionFailed /\ status = 500
  /\ body = JObj(<<"error">>, <<JStr("LLM error: Could not match complete JSON")>>)

IsCanonicalSuggestion(e) ==
  /\ e.t = "obj"
  /\ \A key \in {"id", "title", "detail"} : Has(e, key) /\ Val(e, key).t = "str"

IsCanonicalMetrics(m) ==
  /\ m.t = "obj"
  /\ {m.k[i] : i \in 1..Len(m.k)} = {MetricKeys[i] : i \in 1..Len(MetricKeys)}
  /\ Len(m.k) = Len(MetricKeys)
  /\ \A key \in {"loc_before", "loc_after", "reduction"} : Val(m, key).t = "num"
  /\ Val(m, "redundant_removed").t \in {"num", "null"}
  /\ Val(m, "security_improved").t = "bool"

\* C7: every 200 answer has the canonical shape: optimized_code a string,
\* suggestions a list of entries with string id, title and detail, metrics
\* with exactly the six keys and loc_before, loc_after, reduction integers,
\* redundant_removed an integer or null, security_improved a boolean.
C7_CanonicalShape ==
  status = 200 =>
    /\ body.t = "obj"
    /\ Has(body, "optimized_code") /\ Val(body, "optimized_code").t = "str"
    /\ Has(body, "suggestions") /\ Val(body, "suggestions").t = "list"
    /\ \A i \in 1..Len(Val(body, "suggestions").l) :
         IsCanonicalSuggestion(Val(body, "suggestions").l[i])
    /\ Has(body, "metrics") /\ IsCanonicalMetrics(Val(body, "metrics"))

\* The list xs with every element but the one at position i replaced by null.
Alone(xs, i) == JList([j \in 1..Len(xs) |-> IF j = i THEN xs[j] ELSE JNull])

\* C8: the output of normalize_suggestions is as long as its input list and
\* in the same order: entry i is made from element i and its position alone.
C8_LengthAndOrder ==
  (pc = "returned" /\ args.f = "normalize_suggestions") =>
    LET xs == args.suggestions.l
    IN  /\ ret.ok /\ ret.val.t = "list"
        /\ Len(ret.val.l) = Len(xs)
        /\ \A i \in 1..Len(xs) :
             /\ ret.val.l[i] = normalize_one(i - 1, xs[i])
             /\ ret.val.l[i] = normalize_suggestions(Alone(xs, i)).val.l[i]

C8_Witness ==
  /\ pc = "returned" /\ args.f = "normalize_suggestions"
  /\ Len(args.suggestions.l) = 2 /\ Len(ret.val.l) = 2
  /\ args.suggestions.l[1] = JNull /\ args.suggestions.l[2] = JStr("fix bug")
  /\ Val(ret.val.l[2], "id") = JStr("S2")

\* The truth value of v: null, false, zero and the empty string, list and
\* object are not true.
Truthy(v) ==
  CASE v.t = "null" -> FALSE
    [] v.t = "bool" -> v.b
    [] v.t = "num" -> v.n # 0
    [] v.t = "float" -> v.n # 0 \/ v.s # ""
    [] v.t = "str" -> v.s # ""
    [] v.t \in {"list", "obj"} -> v.l # <<>>

\* e has a true value under key.
Given(e, key) == Has(e, key) /\ Truthy(Val(e, key))

\* "e.k1 or e.k2 or ... or default": the value under the first of keys for
\* which e has a true value, default when there is none.
FirstTrue(e, keys, default) ==
  IF \E i \in 1..Len(keys) : Given(e, keys[i])
  THEN Val(e, keys[CHOOSE i \in 1..Len(keys) :
                     Given(e, keys[i]) /\ \A j \in 1..(i - 1) : ~Given(e, keys[j])])
  ELSE default

\* The entry C9 states for element e at 1-based position n (0-based n - 1).
Expected(n, e) ==
  LET sid == JStr("S" \o Decimal(n))
  IN  CASE e.t = "str" ->
             JObj(<<"id", "title", "detail">>,
                  <<sid, JStr(IF Len(e.s) <= 40 THEN e.s ELSE SubSeq(e.s, 1, 40)), e>>)
        [] e.t = "obj" ->
             JObj(<<"id", "title", "detail">>,
                  <<FirstTrue(e, <<"id">>, sid),
                    FirstTrue(e, <<"title", "description">>, JStr("Suggestion")),
                    FirstTrue(e, <<"detail", "description">>, JStr(""))>>)
        [] OTHER ->
             JObj(<<"id", "title", "detail">>, <<sid, JStr("Suggestion"), JStr(py_str(e))>>)

\* C9: a string s at 0-based position i gives {id "S<i+1>", title the first 40
\* characters of s, detail s}; an object gives {id: its id or "S<i+1>", title:
\* its title or description or "Suggestion", detail: its detail or
\* description or ""}; any other value gives {id "S<i+1>", title "Suggestion",
\* detail the string form of the value}.
C9_EntryPerKind ==
  (pc = "returned" /\ args.f = "normalize_suggestions") =>
    /\ ret.ok
    /\ \A n \in 1..Len(args.suggestions.l) :
         /\ n <= Len(ret.val.l)
         /\ ret.val.l[n] = Expected(n, args.suggestions.l[n])
         /\ args.suggestions.l[n] = JNum(7) => Val(ret.val.l[n], "detail") = JStr("7")
         /\ args.suggestions.l[n] = JNull => Val(ret.val.l[n], "detail") = JStr("None")
         /\ args.suggestions.l[n] = JFloat(FALSE, 25, 0 - 1) =>
              Val(ret.val.l[n], "detail") = JStr("2.5")
         /\ args.suggestions.l[n] = JStr(LongString) =>
              Val(ret.val.l[n], "title") = JStr("0123456789012345678901234567890123456789")

LongNames ==
  <<"Lines of Code Before", "Lines of Code After", "Lines of Code Reduced",
    "Redundant Variables Removed", "String Input Security Improved">>

\* d without the keys that are not among keys.
Restrict(d, keys) ==
  LET F[i \in 0..Len(d.k)] ==
        IF i = 0 THEN EmptyObj
        ELSE IF \E j \in 1..Len(keys) : keys[j] = d.k[i]
          THEN Put(F[i - 1], d.k[i], d.l[i])
          ELSE F[i - 1]
  IN  F[Len(d.k)]

Newlines(s) == Cardinality({i \in 1..Len(s) : At(s, i) = "\n"})

\* C10: normalize_metrics returns the language of the caller and, with loc the
\* number of newlines of code plus one, loc_before = the value of raw under
\* "Lines of Code Before" or loc, and likewise loc_after (or loc), reduction
\* (or 0), redundant_removed (or null) and security_improved (or false), each
\* under its long name; no other key of raw is read.
C10_MetricsMapping ==
  (pc = "returned" /\ args.f = "normalize_metrics") =>
    LET m == args.metrics
        loc == JNum(Newlines(args.code) + 1)
    IN  /\ ret.ok /\ ret.val.t = "obj" /\ ret.val.k = MetricKeys
        /\ Val(ret.val, "language") = args.language
        /\ Val(ret.val, "loc_before") = FirstTrue(m, <<"Lines of Code Before">>, loc)
        /\ Val(ret.val, "loc_after") = FirstTrue(m, <<"Lines of Code After">>, loc)
        /\ Val(ret.val, "reduction") = FirstTrue(m, <<"Lines of Code Reduced">>, JNum(0))
        /\ Val(ret.val, "redundant_removed")
             = FirstTrue(m, <<"Redundant Variables Removed">>, JNull)
        /\ Val(ret.val, "security_improved")
             = FirstTrue(m, <<"String Input Security Improved">>, JBool(FALSE))
        /\ ret = normalize_metrics(Restrict(m, LongNames), args.language, args.code)

====
